---- MODULE Spec2Model ----
(***************************************************************************)
(* Model of the survey runner in src/app.py (Flask + SQLAlchemy/SQLite).   *)
(*                                                                         *)
(* Flask's `session` is the signed cookie of the request: a handler reads  *)
(* the session the request carries and, when it modified it, the response  *)
(* replaces the browser's cookie.  `jar[b]` is the cookie browser b holds, *)
(* `inflight` the requests sent but not yet handled (each with the cookie  *)
(* it was sent with), `response` the rows of the table `response`.         *)
(* `persisted`, `last` and `sent` are history variables: the rows          *)
(* committed per run, the exchange the latest step completed and the       *)
(* records of the CSV file it sent.                                        *)
(* Text is a sequence of one-character strings, so that strip(), lower()   *)
(* and int() are computed.  Timestamps (start_time, end_time) and the      *)
(* templates' HTML are left out; database statements are taken to succeed. *)
(*                                                                         *)
(* Three specifications:                                                   *)
(*   Spec         every route, a browser's requests answered in sequence;  *)
(*   SpecOverlap  the participant's routes, requests of a browser          *)
(*                overlapping (a request handled with an older cookie);    *)
(*   SpecRun      participants working through their runs, with fairness.  *)
(***************************************************************************)
EXTENDS Integers, Sequences, FiniteSets, Bags, TLC

\* ---------------- bounds ----------------
NumBrowsers == 2
MaxStarts   == 2
MaxRows     == 2
MaxInflight == 1

Browsers == 1..NumBrowsers

\* ---------------- text ----------------
LowerChar(c) ==
  CASE c = "C" -> "c" [] c = "N" -> "n" [] c = "J" -> "j" [] c = "P" -> "p"
    [] c = "X" -> "x" [] OTHER -> c

Lower(str) == [i \in 1..Len(str) |-> LowerChar(str[i])]

RECURSIVE LStrip(_)
LStrip(str) ==
  IF str # <<>> /\ Head(str) = " " THEN LStrip(Tail(str)) ELSE str

RECURSIVE RStrip(_)
RStrip(str) ==
  IF str # <<>> /\ str[Len(str)] = " " THEN RStrip(SubSeq(str, 1, Len(str) - 1)) ELSE str

Strip(str) == LStrip(RStrip(str))

Digits == <<"0", "1", "2", "3", "4", "5", "6", "7", "8", "9">>

IsDigit(c) == \E d \in 1..10 : Digits[d] = c

DigitVal(c) == (CHOOSE d \in 1..10 : Digits[d] = c) - 1

RECURSIVE DigitsVal(_)
DigitsVal(str) ==
  IF str = <<>> THEN 0
  ELSE 10 * DigitsVal(SubSeq(str, 1, Len(str) - 1)) + DigitVal(str[Len(str)])

Unsigned(str) ==
  IF str # <<>> /\ Head(str) \in {"+", "-"} THEN Tail(str) ELSE str

\* int(text): surrounding blanks dropped, an optional sign, one digit or more
IsIntText(str) ==
  LET u == Unsigned(Strip(str))
  IN  u # <<>> /\ \A i \in 1..Len(u) : IsDigit(u[i])

ParseInt(str) ==
  LET t == Strip(str)
      v == DigitsVal(Unsigned(t))
  IN  IF t # <<>> /\ Head(t) = "-" THEN 0 - v ELSE v

\* ---------------- configuration ----------------
ADMIN_USER == <<"a", "d", "m", "i", "n">>
ADMIN_PASS == <<"1", "2", "3", "4", "5", "6">>

CN == <<"c", "n">>
JP == <<"j", "p">>

\* stimuli_list.csv: two stimuli of version cn, one of version jp
StimuliList ==
  << [label |-> "s1", person |-> "p1", url |-> "u1", version |-> <<"c", "n">>],
     [label |-> "s2", person |-> "p2", url |-> "u2", version |-> <<"C", "N">>],
     [label |-> "s3", person |-> "p1", url |-> "u3", version |-> <<"j", "p">>] >>

\* ---------------- dictionaries (session, form, args) ----------------
Has(d, k) == k \in DOMAIN d

Get(d, k, default) == IF k \in DOMAIN d THEN d[k] ELSE default

Put(d, k, v) == (k :> v) @@ d

Pop(d, k) == [x \in (DOMAIN d) \ {k} |-> d[x]]

EmptyDict == [x \in {} |-> 0]

\* ---------------- the table `response` ----------------
\* SQL NULL of the columns run_id and is_complete
NullRun  == 0
NullFlag == -1

\* INTEGER PRIMARY KEY of SQLite: one more than the largest rowid in the table
NextId(table) ==
  IF table = {} THEN 1
  ELSE 1 + (CHOOSE m \in {r.id : r \in table} : \A r \in table : r.id <= m)

\* `run_id = :rid` of SQL: never true of NULL
SqlEq(a, b) == a # NullRun /\ b # NullRun /\ a = b

IsPartial(r) == r.is_complete = 0 \/ r.is_complete = NullFlag

IsCompleteRow(r) == r.is_complete = 1

\* ---------------- responses ----------------
\* what a handler returns: the session after it, whether it was modified (the
\* cookie is sent back only then), the table after it, and the HTTP response
Reply(sess, modified, table, status, location, body) ==
  [sess |-> sess, modified |-> modified, table |-> table, status |-> status,
   location |-> location, body |-> body]

Redirect(sess, table, location) ==
  Reply(sess, FALSE, table, 302, location, EmptyDict)

Render(sess, table, template, context) ==
  Reply(sess, FALSE, table, 200, "", [template |-> template, context |-> context])

Fail(sess, table, status) ==
  Reply(sess, FALSE, table, status, "", EmptyDict)

\* ---------------- admin_required ----------------
admin_required(sess) == Get(sess, "admin", FALSE) = TRUE

\* ---------------- /  ----------------
index(sess, table) == {Render(sess, table, "index.html", EmptyDict)}

\* ---------------- /start/<version> ----------------
Arrangements(n) ==
  {p \in [1..n -> 1..n] : \A i, j \in 1..n : p[i] = p[j] => i = j}

\* random.shuffle(records): every arrangement of the list
Shuffles(records) ==
  {[i \in 1..Len(records) |-> records[p[i]]] : p \in Arrangements(Len(records))}

\* df[df["version"].str.lower() == version]
FilterVersion(version) ==
  SelectSeq(StimuliList, LAMBDA r : Lower(r.version) = version)

ItemLabel(n) == <<"item1", "item2", "item3", "item4">>[n]

\* s.get("label") or s.get("stimulus_label") or f"item{i+1}"
StimulusLabel(s, i) ==
  IF Get(s, "label", "") # "" THEN s.label
  ELSE IF Get(s, "stimulus_label", "") # "" THEN s.stimulus_label
  ELSE ItemLabel(i + 1)

\* the loop over enumerate(records), i counted from 0
Enumerated(records) ==
  [k \in 1..Len(records) |->
     Put(Put(Put(Put(records[k],
       "stimulus_label", StimulusLabel(records[k], k - 1)),
       "person", Get(records[k], "person", "")),
       "url", Get(records[k], "url", "")),
       "index", k - 1)]

\* participant_id is the first 8 characters of one uuid4, run_id a second
\* uuid4; the n-th draw is the token n and distinct draws differ in their
\* first 8 characters
Uuid4(n) == n

First8(u) == u

StartSession(sess, version, records, drawn) ==
  Put(Put(Put(Put(Put(sess,
    "participant_id", First8(Uuid4(drawn + 1))),
    "version", version),
    "stimuli_order", records),
    "current_index", 0),
    "run_id", Uuid4(drawn + 2))

start(sess, table, args, drawn) ==
  LET version == Lower(Strip(args.version))
      sub     == FilterVersion(version)
  IN  IF version \notin {CN, JP} THEN {Fail(sess, table, 400)}
      ELSE IF sub = <<>> THEN {Fail(sess, table, 500)}
      ELSE {Reply(StartSession(sess, version, Enumerated(records), drawn), TRUE,
                  table, 302, "experiment", EmptyDict) : records \in Shuffles(sub)}

\* ---------------- /experiment ----------------
\* mutant: the form's trial_index is not read
FormTrialIndexOfCursor(form, idx) == idx

\* int(request.form.get("trial_index", idx)), idx when that raises
FormTrialIndex(form, idx) ==
  IF Has(form, "trial_index") /\ IsIntText(form.trial_index)
  THEN ParseInt(form.trial_index) ELSE idx

\* the keyword arguments q1=int(request.form["q1"]), ... are evaluated in
\* order: the first rating that is missing gives 400, that is no integer 500
RECURSIVE RatingsStatus(_, _)
RatingsStatus(form, qs) ==
  IF qs = <<>> THEN 200
  ELSE IF ~Has(form, Head(qs)) THEN 400
  ELSE IF ~IsIntText(form[Head(qs)]) THEN 500
  ELSE RatingsStatus(form, Tail(qs))

\* mutant: the stimulus taken one position too far
NewRowNextStimulus(sess, table, form, idx) ==
  LET stim == sess.stimuli_order[IF idx + 2 <= Len(sess.stimuli_order) THEN idx + 2 ELSE 1]
  IN  [id |-> NextId(table),
       participant_id |-> Get(sess, "participant_id", 0),
       version |-> Get(sess, "version", CN),
       stimulus_label |-> Get(stim, "stimulus_label", ""),
       person |-> Get(stim, "person", ""),
       trial_index |-> FormTrialIndex(form, idx),
       q1 |-> ParseInt(form.q1), q2 |-> ParseInt(form.q2),
       q3 |-> ParseInt(form.q3), q4 |-> ParseInt(form.q4),
       q5 |-> ParseInt(form.q5),
       run_id |-> Get(sess, "run_id", NullRun),
       is_complete |-> 0]

NewRow(sess, table, form, idx) ==
  LET stim == sess.stimuli_order[idx + 1]
  IN  [id |-> NextId(table),
       participant_id |-> Get(sess, "participant_id", 0),
       version |-> Get(sess, "version", CN),
       stimulus_label |-> Get(stim, "stimulus_label", ""),
       person |-> Get(stim, "person", ""),
       trial_index |-> FormTrialIndex(form, idx),
       q1 |-> ParseInt(form.q1), q2 |-> ParseInt(form.q2),
       q3 |-> ParseInt(form.q3), q4 |-> ParseInt(form.q4),
       q5 |-> ParseInt(form.q5),
       run_id |-> Get(sess, "run_id", NullRun),
       is_complete |-> 0]

\* db.session.add(r); db.session.commit()
InsertRow(table, r) == table \cup {r}

\* mutant: the end of the run tested with > instead of >=
NextLocationLate(idx, order) ==
  IF idx + 1 > Len(order) THEN "thank_you" ELSE "experiment"

\* redirect to thank_you once session["current_index"] >= len(stimuli_order)
NextLocation(idx, order) ==
  IF idx + 1 >= Len(order) THEN "thank_you" ELSE "experiment"

\* mutant: the order is rearranged again when the cursor advances
AdvanceCursorReshuffled(sess, idx) ==
  Put(Put(sess, "current_index", idx + 1), "stimuli_order",
      [i \in 1..Len(sess.stimuli_order) |->
         sess.stimuli_order[Len(sess.stimuli_order) + 1 - i]])

\* session["current_index"] = idx + 1
AdvanceCursor(sess, idx) == Put(sess, "current_index", idx + 1)

\* mutant: the cursor is advanced before the ratings are converted
experiment_post_early_advance(sess, table, form) ==
  LET idx    == Get(sess, "current_index", 0)
      order  == sess.stimuli_order
      status == RatingsStatus(form, <<"q1", "q2", "q3", "q4", "q5">>)
  IN  IF ~(0 <= idx /\ idx < Len(order)) THEN {Redirect(sess, table, "thank_you")}
      ELSE IF status # 200
      THEN {Reply(AdvanceCursor(sess, idx), TRUE, table, status, "", EmptyDict)}
      ELSE {Reply(AdvanceCursor(sess, idx), TRUE,
                  InsertRow(table, NewRow(sess, table, form, idx)), 302,
                  NextLocation(idx, order), EmptyDict)}

\* mutant: the range guard lets idx = len(stimuli_order) through, and
\* stimuli_order[idx] raises IndexError
experiment_post_late_guard(sess, table, form) ==
  LET idx    == Get(sess, "current_index", 0)
      order  == sess.stimuli_order
      status == RatingsStatus(form, <<"q1", "q2", "q3", "q4", "q5">>)
  IN  IF ~(0 <= idx /\ idx <= Len(order)) THEN {Redirect(sess, table, "thank_you")}
      ELSE IF idx = Len(order) THEN {Fail(sess, table, 500)}
      ELSE IF status # 200 THEN {Fail(sess, table, status)}
      ELSE {Reply(AdvanceCursor(sess, idx), TRUE,
                  InsertRow(table, NewRow(sess, table, form, idx)), 302,
                  NextLocation(idx, order), EmptyDict)}

experiment_post(sess, table, form) ==
  LET idx    == Get(sess, "current_index", 0)
      order  == sess.stimuli_order
      status == RatingsStatus(form, <<"q1", "q2", "q3", "q4", "q5">>)
  IN  IF ~(0 <= idx /\ idx < Len(order)) THEN {Redirect(sess, table, "thank_you")}
      ELSE IF status # 200 THEN {Fail(sess, table, status)}
      ELSE {Reply(AdvanceCursor(sess, idx), TRUE,
                  InsertRow(table, NewRow(sess, table, form, idx)), 302,
                  NextLocation(idx, order), EmptyDict)}

experiment_get(sess, table) ==
  LET idx   == Get(sess, "current_index", 0)
      order == sess.stimuli_order
      stim  == order[idx + 1]
  IN  IF idx >= Len(order) THEN {Redirect(sess, table, "thank_you")}
      ELSE {Render(sess, table, "experiment.html",
              [stim |-> [url |-> Get(stim, "url", ""),
                         stimulus_label |-> Get(stim, "stimulus_label", ""),
                         person |-> Get(stim, "person", ""),
                         index |-> Get(stim, "index", idx)],
               index |-> idx + 1, total |-> Len(order),
               version |-> Get(sess, "version", CN)])}

experiment(sess, table, method, form) ==
  IF ~Has(sess, "stimuli_order") \/ ~Has(sess, "current_index")
  THEN {Redirect(sess, table, "index")}
  ELSE IF method = "POST" THEN experiment_post(sess, table, form)
  ELSE experiment_get(sess, table)

\* ---------------- /thank_you ----------------
\* a or b of Python, for texts where the absent one is empty
OrText(a, b) == IF a # <<>> THEN a ELSE b

ThankYouVersion(sess, args) ==
  LET v == Lower(Strip(OrText(Get(args, "version", <<>>),
                              OrText(Get(sess, "version", <<>>), CN))))
  IN  IF v = CN THEN CN ELSE JP

\* mutant: the UPDATE without its WHERE clause
MarkCompleteAll(table, rid) ==
  {[r EXCEPT !.is_complete = 1] : r \in table}

\* mutant: only the row submitted last is marked
MarkCompleteLast(table, rid) ==
  {IF SqlEq(r.run_id, rid) /\ r.id + 1 = NextId(table)
   THEN [r EXCEPT !.is_complete = 1] ELSE r : r \in table}

\* UPDATE response SET is_complete = 1 WHERE run_id = :rid
MarkComplete(table, rid) ==
  {IF SqlEq(r.run_id, rid) THEN [r EXCEPT !.is_complete = 1] ELSE r : r \in table}

thank_you(sess, table, args) ==
  LET rid == Get(sess, "run_id", NullRun)
  IN  {Render(sess, IF rid # NullRun THEN MarkComplete(table, rid) ELSE table,
              "thank_you.html", [version |-> ThankYouVersion(sess, args)])}

\* ---------------- /admin, /admin/logout ----------------
CredentialsOk(form) ==
  /\ Has(form, "username") /\ form.username = ADMIN_USER
  /\ Has(form, "password") /\ form.password = ADMIN_PASS

admin(sess, table, method, form) ==
  IF method = "POST" /\ CredentialsOk(form)
  THEN {Reply(Put(sess, "admin", TRUE), TRUE, table, 302, "admin_panel", EmptyDict)}
  ELSE {Render(sess, table, "admin.html", [error |-> method = "POST"])}

admin_logout(sess, table) ==
  {Reply(Pop(sess, "admin"), Has(sess, "admin"), table, 302, "admin", EmptyDict)}

\* ---------------- /admin/panel ----------------
admin_panel(sess, table) ==
  IF ~admin_required(sess) THEN {Redirect(sess, table, "admin")}
  ELSE {Render(sess, table, "admin_panel.html",
          [count   |-> Cardinality({r \in table : IsCompleteRow(r)}),
           partial |-> Cardinality({r \in table : IsPartial(r)})])}

\* ---------------- /admin/export_csv ----------------
RECURSIVE ById(_)
ById(rows) ==
  IF rows = {} THEN <<>>
  ELSE LET r == CHOOSE x \in rows : \A y \in rows : x.id <= y.id
       IN  <<r>> \o ById(rows \ {r})

CsvRecord(r) ==
  [participant_id |-> r.participant_id, version |-> r.version,
   stimulus_label |-> r.stimulus_label, person |-> r.person,
   trial_index |-> r.trial_index, Q1 |-> r.q1, Q2 |-> r.q2, Q3 |-> r.q3,
   Q4 |-> r.q4, Q5 |-> r.q5]

\* mutant: the select without its where clause
ExportedRowsAll(table) == ById(table)

\* select(Response).where(Response.is_complete == True)
ExportedRows(table) == ById({r \in table : IsCompleteRow(r)})

export_csv(sess, table) ==
  IF ~admin_required(sess) THEN {Redirect(sess, table, "admin")}
  ELSE LET rows == ExportedRows(table)
       IN  {Reply(sess, FALSE, table, 200, "",
                  [file |-> "responses.csv",
                   records |-> [i \in 1..Len(rows) |-> CsvRecord(rows[i])]])}

\* ---------------- /admin/download_db, /admin/export_db ----------------
download_db(sess, table) ==
  IF ~admin_required(sess) THEN {Redirect(sess, table, "admin")}
  ELSE {Reply(sess, FALSE, table, 200, "", [file |-> "experiment.db", rows |-> table])}

export_db_compat(sess, table) == download_db(sess, table)

\* ---------------- /admin/clear_db ----------------
\* db.session.query(Response).delete()
ClearRows(table) == {}

Confirmed(form) == Has(form, "really") /\ form.really = <<"y", "e", "s">>

clear_db(sess, table, form) ==
  IF ~admin_required(sess) THEN {Redirect(sess, table, "admin")}
  ELSE IF ~Confirmed(form) THEN {Fail(sess, table, 400)}
  ELSE {Redirect(sess, ClearRows(table), "admin_panel")}

\* mutant: the delete without its filter
DeleteEveryRow(table) == {}

\* ---------------- /admin/delete_partials ----------------
\* query(Response).filter((is_complete == False) | (is_complete == None)).delete()
DeletePartialRows(table) == {r \in table : ~IsPartial(r)}

\* mutant: delete_partials without the admin_required() test
delete_partials_open(sess, table, form) ==
  {Reply(sess, TRUE, DeletePartialRows(table), 302, "admin_panel",
         [deleted |-> Cardinality({r \in table : IsPartial(r)})])}

\* flash() touches the session, so the cookie is sent back; the list of flashed
\* messages belongs to the rendering and is left out
delete_partials(sess, table, form) ==
  IF ~admin_required(sess) THEN {Redirect(sess, table, "admin")}
  ELSE {Reply(sess, TRUE, DeletePartialRows(table), 302, "admin_panel",
              [deleted |-> Cardinality({r \in table : IsPartial(r)})])}

\* ---------------- requests ----------------
Request(o, m, a) == [args |-> a, method |-> m, op |-> o]

Versions == {<<"c", "n">>, <<" ", "J", "P">>, <<"x", "x">>}

Four == <<"4">>

ValidForm == [q1 |-> Four, q2 |-> Four, q3 |-> <<"1">>, q4 |-> Four, q5 |-> <<" ", "5">>]

PostForms ==
  { ValidForm,
    Put(ValidForm, "trial_index", <<"7">>),
    Put(ValidForm, "trial_index", <<"x">>),
    Pop(ValidForm, "q3"),
    Put(ValidForm, "q2", <<"a">>) }

ThankYouArgs == {EmptyDict, [version |-> <<"J", "P">>]}

LoginForms ==
  { [username |-> ADMIN_USER, password |-> ADMIN_PASS],
    [username |-> ADMIN_USER, password |-> <<"1">>],
    [password |-> ADMIN_PASS] }

ConfirmForms == {EmptyDict, [really |-> <<"y", "e", "s">>]}

\* the router: the handler of a request, applied to the session the request
\* carries, the table and the number of uuid4 draws made so far
Dispatch(req, sess, table, drawn) ==
  CASE req.op = "index"            -> index(sess, table)
    [] req.op = "start"            -> start(sess, table, req.args, drawn)
    [] req.op = "experiment"       -> experiment(sess, table, req.method, req.args)
    [] req.op = "thank_you"        -> thank_you(sess, table, req.args)
    [] req.op = "admin"            -> admin(sess, table, req.method, req.args)
    [] req.op = "admin_logout"     -> admin_logout(sess, table)
    [] req.op = "admin_panel"      -> admin_panel(sess, table)
    [] req.op = "export_csv"       -> export_csv(sess, table)
    [] req.op = "download_db"      -> download_db(sess, table)
    [] req.op = "export_db_compat" -> export_db_compat(sess, table)
    [] req.op = "clear_db"         -> clear_db(sess, table, req.args)
    [] req.op = "delete_partials"  -> delete_partials(sess, table, req.args)

\* ---------------- state ----------------
VARIABLES
  jar,        \* jar[b]: the session cookie browser b holds
  inflight,   \* bag of requests sent and not yet handled: browser and cookie
  response,   \* the rows of the table
  uuids,      \* number of uuid4 draws made
  persisted,  \* persisted[run_id]: rows committed for the run so far
  last,       \* the exchange the latest step completed (NoExchange: none)
  sent        \* the records of the CSV file that exchange sent (<<>>: no file)

vars == <<jar, inflight, response, uuids, persisted, last, sent>>

NoExchange ==
  [status |-> 0, location |-> "", req |-> Request("none", "GET", EmptyDict),
   browser |-> 0, in |-> EmptyDict]

Init ==
  /\ jar = [b \in Browsers |-> EmptyDict]
  /\ inflight = EmptyBag
  /\ response = {}
  /\ uuids = 0
  /\ persisted = EmptyDict
  /\ last = NoExchange
  /\ sent = <<>>

RECURSIVE Sum(_)
Sum(d) ==
  IF DOMAIN d = {} THEN 0
  ELSE LET k == CHOOSE x \in DOMAIN d : TRUE IN d[k] + Sum(Pop(d, k))

\* guards that keep the counters within the bounds
WithinBounds(req) ==
  /\ req.op = "start" => uuids + 2 <= 2 * MaxStarts
  /\ (req.op = "experiment" /\ req.method = "POST") => Sum(persisted) < MaxRows

\* the cookies a request of browser b can arrive with: the one the browser
\* holds now, or the one of a request of b that has been in flight since
Carried(b) ==
  {[late |-> FALSE, cookie |-> jar[b]]} \cup
  {[late |-> TRUE, cookie |-> m.cookie] : m \in {x \in BagToSet(inflight) : x.browser = b}}

\* browser b's request req is handled and answered
Serve(b, req) ==
  /\ WithinBounds(req)
  /\ \E c \in Carried(b) :
     \E o \in Dispatch(req, c.cookie, response, uuids) :
       LET rid == Get(c.cookie, "run_id", NullRun)
       IN  /\ jar' = [jar EXCEPT ![b] = IF o.modified THEN o.sess ELSE @]
           /\ inflight' = IF c.late
                           THEN inflight (-) SetToBag({[browser |-> b, cookie |-> c.cookie]})
                           ELSE inflight
           /\ response' = o.table
           /\ uuids' = IF req.op = "start" /\ o.modified THEN uuids + 2 ELSE uuids
           /\ persisted' = IF \E r \in o.table : \A x \in response : x.id # r.id
                            THEN Put(persisted, rid, Get(persisted, rid, 0) + 1)
                            ELSE persisted
           /\ last' = [status |-> o.status, location |-> o.location, req |-> req,
                        browser |-> b, in |-> c.cookie]
           /\ sent' = Get(o.body, "records", <<>>)

\* ---------------- actions: one per route ----------------
Index(b) ==
  /\ b \in Browsers
  /\ Serve(b, Request("index", "GET", EmptyDict))

Start(b) ==
  /\ b \in Browsers
  /\ \E v \in Versions : Serve(b, Request("start", "GET", [version |-> v]))

ExperimentGet(b) ==
  /\ b \in Browsers
  /\ Serve(b, Request("experiment", "GET", EmptyDict))

ExperimentPost(b) ==
  /\ b \in Browsers
  /\ \E f \in PostForms : Serve(b, Request("experiment", "POST", f))

ThankYou(b) ==
  /\ b \in Browsers
  /\ \E a \in ThankYouArgs : Serve(b, Request("thank_you", "GET", a))

AdminPage(b) ==
  /\ b \in Browsers
  /\ Serve(b, Request("admin", "GET", EmptyDict))

AdminLogin(b) ==
  /\ b \in Browsers
  /\ \E f \in LoginForms : Serve(b, Request("admin", "POST", f))

AdminLogout(b) ==
  /\ b \in Browsers
  /\ Serve(b, Request("admin_logout", "GET", EmptyDict))

AdminPanel(b) ==
  /\ b \in Browsers
  /\ Serve(b, Request("admin_panel", "GET", EmptyDict))

ExportCsv(b) ==
  /\ b \in Browsers
  /\ Serve(b, Request("export_csv", "GET", EmptyDict))

DownloadDb(b) ==
  /\ b \in Browsers
  /\ Serve(b, Request("download_db", "GET", EmptyDict))

ExportDbCompat(b) ==
  /\ b \in Browsers
  /\ Serve(b, Request("export_db_compat", "GET", EmptyDict))

ClearDb(b) ==
  /\ b \in Browsers
  /\ \E f \in ConfirmForms : Serve(b, Request("clear_db", "POST", f))

DeletePartials(b) ==
  /\ b \in Browsers
  /\ \E f \in ConfirmForms : Serve(b, Request("delete_partials", "POST", f))

\* a request leaves browser b with the cookie held at that moment and is handled
\* later, after other requests of b; what it asks for plays no part before then
Send(b) ==
  /\ BagCardinality(inflight) < MaxInflight
  /\ inflight' = inflight (+) SetToBag({[browser |-> b, cookie |-> jar[b]]})
  /\ last' = NoExchange
  /\ sent' = <<>>
  /\ UNCHANGED <<jar, response, uuids, persisted>>

\* every route, each browser sending a request once the one before is answered
Next ==
  \E b \in Browsers :
    \/ Index(b) \/ Start(b) \/ ExperimentGet(b) \/ ExperimentPost(b)
    \/ ThankYou(b) \/ AdminPage(b) \/ AdminLogin(b) \/ AdminLogout(b)
    \/ AdminPanel(b) \/ ExportCsv(b) \/ DownloadDb(b) \/ ExportDbCompat(b)
    \/ ClearDb(b) \/ DeletePartials(b)

Spec == Init /\ [][Next]_vars

\* the participant's routes, with requests of one browser overlapping
NextOverlap ==
  \E b \in Browsers :
    \/ Index(b) \/ Start(b) \/ ExperimentGet(b) \/ ExperimentPost(b)
    \/ ThankYou(b) \/ Send(b)

SpecOverlap == Init /\ [][NextOverlap]_vars
\* ---------------- a participant working through a run ----------------
Cursor(sess) == Get(sess, "current_index", 0)

InRun(sess) == Has(sess, "stimuli_order") /\ Cursor(sess) < Len(sess.stimuli_order)

AtEnd(sess) == Has(sess, "stimuli_order") /\ Cursor(sess) >= Len(sess.stimuli_order)

ValidForms == {f \in PostForms : RatingsStatus(f, <<"q1", "q2", "q3", "q4", "q5">>) = 200}

\* rows the runs in progress still need
RECURSIVE Owed(_)
Owed(bs) ==
  IF bs = {} THEN 0
  ELSE LET b == CHOOSE x \in bs : TRUE
       IN  (IF InRun(jar[b]) THEN Len(jar[b].stimuli_order) - Cursor(jar[b]) ELSE 0)
           + Owed(bs \ {b})

RowsOfRun(table, rid) == {r \in table : SqlEq(r.run_id, rid)}

\* the run of the session is over: every stimulus submitted, thank_you served
Finished(sess) ==
  /\ AtEnd(sess)
  /\ RowsOfRun(response, Get(sess, "run_id", NullRun)) # {}
  /\ \A r \in RowsOfRun(response, Get(sess, "run_id", NullRun)) : IsCompleteRow(r)

\* the participant opens /start/<version> before any run or after a finished
\* one (and the bound on rows leaves room for the whole run)
RunStart(b) ==
  /\ ~Has(jar[b], "run_id") \/ Finished(jar[b])
  /\ \E v \in Versions :
       /\ Sum(persisted) + Owed(Browsers) + Len(FilterVersion(Lower(Strip(v)))) <= MaxRows
       /\ Serve(b, Request("start", "GET", [version |-> v]))

RunGet(b) == InRun(jar[b]) /\ Serve(b, Request("experiment", "GET", EmptyDict))

RunSubmit(b) ==
  /\ InRun(jar[b])
  /\ \E f \in ValidForms : Serve(b, Request("experiment", "POST", f))

\* the browser follows the redirect to /thank_you
RunFinish(b) ==
  /\ AtEnd(jar[b]) /\ ~Finished(jar[b])
  /\ Serve(b, Request("thank_you", "GET", [version |-> jar[b].version]))

NextRun ==
  \E b \in Browsers : RunStart(b) \/ RunGet(b) \/ RunSubmit(b) \/ RunFinish(b)

\* the participant's next step in a run: the next answer, or the redirect
RunStep(b) == RunSubmit(b) \/ RunFinish(b)

\* a participant in a run goes on until it is over
SpecRun ==
  /\ Init /\ [][NextRun]_vars
  /\ \A b \in Browsers : WF_vars(RunStep(b))
\* ---------------- the exchange just completed ----------------
Handled(op, method) == last.req.op = op /\ last.req.method = method

RunId(sess) == Get(sess, "run_id", NullRun)

\* a POST /experiment whose cursor is in range and whose ratings are valid
AcceptedPost ==
  /\ Handled("experiment", "POST")
  /\ InRun(last.in) /\ Has(last.in, "current_index")
  /\ last.req.args \in ValidForms

\* ---------------- C1 ----------------
\* C1 (as claimed): after any sequence of requests following /start, also with
\* several POST /experiment sent from the same session state, the session's
\* current_index equals the number of rows persisted for its run_id
C1_CursorCountsRows ==
  \A b \in Browsers :
    Has(jar[b], "run_id") => Cursor(jar[b]) = Get(persisted, jar[b].run_id, 0)

\* ---------------- C2 ----------------
\* C2 (as claimed): once a session has a stimuli_order, no later request of
\* that session, /start included, changes it
C2_OrderNeverChanges ==
  [][\A b \in Browsers :
       Has(jar[b], "stimuli_order") =>
         Has(jar'[b], "stimuli_order") /\ jar'[b].stimuli_order = jar[b].stimuli_order]_vars

\* the stimuli of the order, without what start adds to each record
Source(order) ==
  [i \in 1..Len(order) |->
     [label |-> order[i].label, person |-> order[i].person, url |-> order[i].url,
      version |-> order[i].version]]

IsShuffleOf(order, list) ==
  /\ Len(order) = Len(list)
  /\ \E p \in Arrangements(Len(list)) : \A i \in 1..Len(list) : Source(order)[i] = list[p[i]]

\* C2 (amended): a session's stimuli_order is a permutation of the stimuli of
\* its version, each carrying its position, and stays the same for as long as
\* the session keeps its run_id: only /start, which draws a new run_id, sets it
C2_OrderFixedWithinRun ==
  /\ [](\A b \in Browsers :
          Has(jar[b], "stimuli_order") =>
            /\ IsShuffleOf(jar[b].stimuli_order,
                            SelectSeq(StimuliList, LAMBDA r : Lower(r.version) = jar[b].version))
            /\ \A i \in 1..Len(jar[b].stimuli_order) : jar[b].stimuli_order[i].index = i - 1)
  /\ [][\A b \in Browsers :
          (Has(jar[b], "run_id") /\ Has(jar'[b], "run_id") /\ jar'[b].run_id = jar[b].run_id)
            => jar'[b].stimuli_order = jar[b].stimuli_order]_vars

\* a second run of a browser has been answered to its end
C2_Witness ==
  \E b \in Browsers :
    /\ last.browser = b /\ AcceptedPost
    /\ RunId(jar[b]) = 4 /\ RunId(last.in) = 4
    /\ Cursor(jar[b]) = 1

\* ---------------- C3 ----------------
\* C3: an accepted POST /experiment adds exactly one row, with a new id, the
\* run_id and participant_id of the session, the stimulus at
\* stimuli_order[idx] and is_complete false; the rows stored before stay as
\* they were
C3_AcceptedPostAppendsOneRow ==
  [][AcceptedPost' =>
       \E r \in response' :
         /\ r \notin response /\ response' = response \cup {r}
         /\ \A x \in response : x.id # r.id
         /\ r.run_id = last'.in.run_id
         /\ r.participant_id = last'.in.participant_id
         /\ r.stimulus_label = last'.in.stimuli_order[Cursor(last'.in) + 1].stimulus_label
         /\ r.person = last'.in.stimuli_order[Cursor(last'.in) + 1].person
         /\ r.is_complete = 0]_vars

\* an accepted POST added the second row of its run to a table
C3_Witness ==
  /\ AcceptedPost /\ Cursor(last.in) = 1
  /\ Cardinality(RowsOfRun(response, RunId(last.in))) = 2

\* ---------------- C4 ----------------
\* C4 (as claimed): when thank_you has set is_complete on the rows of a run,
\* the cursor of that session had reached len(stimuli_order)
C4_CompleteOnlyAtEnd ==
  (/\ Handled("thank_you", "GET")
   /\ \E r \in RowsOfRun(response, RunId(last.in)) : IsCompleteRow(r))
    => AtEnd(last.in)

\* ---------------- C5 ----------------
\* C5 (as claimed): a clear_db or delete_partials request without really = yes
\* leaves the table unchanged
C5_NoConfirmationNoDelete ==
  [][(last'.req.op \in {"clear_db", "delete_partials"} /\ ~Confirmed(last'.req.args))
       => response' = response]_vars
\* ---------------- C6 ----------------
\* the run ids of browser b: of the cookie it holds and of its requests in flight
RunsHeld(b) ==
  {RunId(jar[b])} \cup {RunId(m.cookie) : m \in {x \in BagToSet(inflight) : x.browser = b}}

\* C6: a start, experiment or thank_you request of browser a changes neither
\* the session of another browser b (stimuli_order, current_index, run_id,
\* participant_id) nor the set or content of the rows tagged with b's run_id
C6_SessionLocal ==
  [][\A a, b \in Browsers :
       (a # b /\ last'.browser = a /\ last'.req.op \in {"start", "experiment", "thank_you"})
         => /\ jar'[b] = jar[b]
            /\ \A rid \in RunsHeld(b) : RowsOfRun(response', rid) = RowsOfRun(response, rid)]_vars

\* browser a's thank_you has completed a's rows while b's run has open rows
C6_Witness ==
  \E a, b \in Browsers :
    /\ a # b /\ last.browser = a /\ Handled("thank_you", "GET")
    /\ \E r \in RowsOfRun(response, RunId(last.in)) : IsCompleteRow(r)
    /\ \E r \in RowsOfRun(response, RunId(jar[b])) : r.is_complete = 0

\* ---------------- C7 ----------------
Authenticated == admin_required(last.in)

\* C7: after a confirmed clear_db by an admin the table is empty; after a
\* confirmed delete_partials by an admin no row with is_complete false or null
\* is left, every row that was complete is still there unchanged, and no row
\* has been added
C7_DestructiveOpsActOnMatchingRows ==
  [][/\ (Handled("clear_db", "POST")' /\ Authenticated' /\ Confirmed(last'.req.args))
          => response' = {}
     /\ (Handled("delete_partials", "POST")' /\ Authenticated' /\ Confirmed(last'.req.args))
          => /\ \A r \in response' : r.is_complete = 1
             /\ {r \in response : r.is_complete = 1} = response']_vars

\* a confirmed delete_partials removed rows and left complete ones
C7_Witness ==
  /\ Handled("delete_partials", "POST") /\ Authenticated /\ Confirmed(last.req.args)
  /\ response # {}
  /\ Sum(persisted) > Cardinality(response)

\* ---------------- C8 ----------------
GatedOps ==
  {"admin_panel", "export_csv", "download_db", "export_db_compat", "clear_db",
   "delete_partials"}

\* C8: a session's admin flag becomes true only by a POST /admin with the
\* configured username and password, is gone after /admin/logout, and a
\* request to a gated route whose session has no flag is redirected to the
\* login page and leaves the table as it was
C8_AdminGate ==
  [][/\ (last'.req.op \in GatedOps /\ ~Authenticated')
          => /\ last'.status = 302 /\ last'.location = "admin"
             /\ response' = response
     /\ \A b \in Browsers :
          (Get(jar'[b], "admin", FALSE) /\ ~Get(jar[b], "admin", FALSE))
            => /\ last'.browser = b /\ Handled("admin", "POST")'
               /\ Get(last'.req.args, "username", <<>>) = ADMIN_USER
               /\ Get(last'.req.args, "password", <<>>) = ADMIN_PASS
     /\ Handled("admin_logout", "GET")' => ~Has(jar'[last'.browser], "admin")]_vars

\* a confirmed clear_db from a session without the flag was turned away while
\* rows are stored and another browser is logged in
C8_Witness ==
  /\ Handled("clear_db", "POST") /\ Confirmed(last.req.args) /\ ~Authenticated
  /\ last.location = "admin"
  /\ response # {}
  /\ \E b \in Browsers : b # last.browser /\ Has(jar[b], "admin")

\* ---------------- C9 ----------------
\* C9: in a run worked through by its participant, an accepted submission is
\* answered with the redirect to thank_you exactly when it is the N-th of the
\* run (N = len(stimuli_order)); once thank_you is served at the end the table
\* holds N rows of the run, all complete; and every started run gets there
C9_RunTerminates ==
  /\ [](AcceptedPost =>
          ((last.location = "thank_you")
             <=> (Get(persisted, RunId(last.in), 0) = Len(last.in.stimuli_order))))
  /\ []((Handled("thank_you", "GET") /\ AtEnd(last.in)) =>
          /\ Cardinality(RowsOfRun(response, RunId(last.in))) = Len(last.in.stimuli_order)
          /\ \A r \in RowsOfRun(response, RunId(last.in)) : r.is_complete = 1)
  /\ \A b \in Browsers :
       (Has(jar[b], "run_id") /\ ~Finished(jar[b]))
         ~> (/\ Finished(jar[b])
             /\ Cardinality(RowsOfRun(response, RunId(jar[b]))) = Len(jar[b].stimuli_order))

\* a run of two stimuli has been submitted and completed
C9_Witness ==
  \E b \in Browsers :
    /\ last.browser = b /\ Handled("thank_you", "GET")
    /\ Finished(jar[b]) /\ Len(jar[b].stimuli_order) = 2
    /\ Cardinality(RowsOfRun(response, RunId(jar[b]))) = 2

\* ---------------- C10 ----------------
\* C10: thank_you sets is_complete on every row of the session's run_id and
\* changes no other row (no row at all without a run_id), adds and deletes no
\* row, and leaves every session (cursor, order) as it was
C10_ThankYouMarksOwnRun ==
  [][Handled("thank_you", "GET")' =>
       /\ jar' = jar
       /\ Cardinality(response') = Cardinality(response)
       /\ \A r \in response :
            (IF RunId(last'.in) # NullRun /\ r.run_id = RunId(last'.in)
             THEN [r EXCEPT !.is_complete = 1] ELSE r) \in response']_vars

\* thank_you completed the row of its run and left an open row of another run
C10_Witness ==
  /\ Handled("thank_you", "GET")
  /\ \E r \in response : r.run_id = RunId(last.in) /\ r.is_complete = 1
  /\ \E r \in response : r.run_id # RunId(last.in) /\ r.is_complete = 0
\* ---------------- C11 ----------------
\* C11 (as claimed): the file export_csv sends to an admin holds one record
\* for every row of the table, and the export changes no row
C11_ExportHoldsEveryRow ==
  [][(Handled("export_csv", "GET")' /\ Authenticated')
       => /\ response' = response
          /\ Len(sent') = Cardinality(response)]_vars

\* the record of the file for a row, column by column
RecordOf(r) ==
  [participant_id |-> r.participant_id, version |-> r.version,
   stimulus_label |-> r.stimulus_label, person |-> r.person,
   trial_index |-> r.trial_index, Q1 |-> r.q1, Q2 |-> r.q2, Q3 |-> r.q3,
   Q4 |-> r.q4, Q5 |-> r.q5]

\* C11 (amended): the file export_csv sends to an admin holds one record for
\* every row whose is_complete is true, in the order of their ids, and none
\* for a row whose is_complete is false or null; the export changes no row
\* and no session
C11_ExportHoldsCompleteRows ==
  [][(Handled("export_csv", "GET")' /\ Authenticated')
       => /\ response' = response /\ jar' = jar
          /\ \E f \in [1..Len(sent') -> {r \in response : r.is_complete = 1}] :
               /\ \A r \in response : r.is_complete = 1 => \E i \in 1..Len(sent') : f[i] = r
               /\ \A i \in 1..Len(sent') : sent'[i] = RecordOf(f[i])
               /\ \A i, j \in 1..Len(sent') : i < j => f[i].id < f[j].id]_vars

\* an export was sent while the table held a complete and an incomplete row
C11_Witness ==
  /\ Handled("export_csv", "GET") /\ Authenticated
  /\ Len(sent) = 1
  /\ \E r \in response : r.is_complete = 0
\* ---------------- C12 ----------------
NoSession(sess) == ~Has(sess, "stimuli_order") \/ ~Has(sess, "current_index")

OutOfRange(sess) ==
  ~NoSession(sess) /\ ~(0 <= Cursor(sess) /\ Cursor(sess) < Len(sess.stimuli_order))

\* the session cookies in existence: held by a browser or carried by a request
Cookies == {jar[b] : b \in Browsers} \cup {m.cookie : m \in BagToSet(inflight)}

\* C12: a GET or POST /experiment from a session without stimuli_order or
\* current_index is redirected to the index page, and a POST /experiment whose
\* cursor is outside 0 <= idx < len(stimuli_order) is redirected to thank_you;
\* neither writes a row nor changes a cursor, and no cursor ever exceeds
\* len(stimuli_order)
C12_GuardedRequestsHaveNoEffect ==
  /\ [][/\ (last'.req.op = "experiment" /\ NoSession(last'.in))
              => /\ last'.status = 302 /\ last'.location = "index"
                 /\ response' = response /\ jar' = jar
        /\ (Handled("experiment", "POST")' /\ OutOfRange(last'.in))
              => /\ last'.status = 302 /\ last'.location = "thank_you"
                 /\ response' = response /\ jar' = jar]_vars
  /\ [](\A c \in Cookies :
          Has(c, "stimuli_order") =>
            (0 <= Cursor(c) /\ Cursor(c) <= Len(c.stimuli_order)))

\* a POST at the end of a run was sent on to thank_you, rows being stored
C12_Witness ==
  /\ Handled("experiment", "POST") /\ OutOfRange(last.in)
  /\ last.req.args \in ValidForms
  /\ last.location = "thank_you"
  /\ RowsOfRun(response, RunId(last.in)) # {}
\* ---------------- C13 ----------------
\* a POST /experiment that reached the conversion of the ratings (session
\* present, cursor in range) with a rating missing or not an integer
RejectedPost ==
  /\ Handled("experiment", "POST")
  /\ ~NoSession(last.in) /\ ~OutOfRange(last.in)
  /\ last.req.args \notin ValidForms

\* C13: a submission in which one of q1..q5 is missing or is not an integer
\* is answered with an error (400 for a missing rating, 500 for one that is no
\* integer), stores no row and leaves every session as it was, so that the
\* next GET /experiment of that browser serves what it served before: for the
\* session the submission carried, the stimulus at its cursor
C13_RejectedSubmissionChangesNothing ==
  [][RejectedPost' =>
       /\ last'.status \in {400, 500}
       /\ response' = response
       /\ jar' = jar /\ persisted' = persisted
       /\ experiment(jar'[last'.browser], response', "GET", EmptyDict)
            = experiment(jar[last'.browser], response, "GET", EmptyDict)
       /\ \A o \in experiment(last'.in, response', "GET", EmptyDict) :
            /\ o.status = 200
            /\ o.body.context.index = Cursor(last'.in) + 1
            /\ o.body.context.stim.stimulus_label
                 = last'.in.stimuli_order[Cursor(last'.in) + 1].stimulus_label]_vars

\* a submission with a rating that is no integer was rejected at the second
\* stimulus of a run
C13_Witness ==
  /\ RejectedPost /\ last.status = 500
  /\ Cursor(last.in) = 1 /\ Cursor(jar[last.browser]) = 1
  /\ Cardinality(RowsOfRun(response, RunId(last.in))) = 1
\* ---------------- C14 ----------------
\* C14 (as claimed): in every reachable state all rows of one run_id have the
\* same is_complete, also when /thank_you is requested before the last
\* stimulus and submissions go on afterwards
C14_CompletionUniformPerRun ==
  \A r1, r2 \in response :
    SqlEq(r1.run_id, r2.run_id) => r1.is_complete = r2.is_complete
\* ---------------- C15 ----------------
\* C15 (as claimed): in every reachable state no two rows of one run_id are
\* for the same position of the run's stimuli_order (its stimuli have distinct
\* labels), and a run has no more rows than stimuli, whatever the
\* interleaving or repetition of the session's POST /experiment requests
C15_StimulusRatedOncePerRun ==
  /\ \A r1, r2 \in response :
       (r1 # r2 /\ SqlEq(r1.run_id, r2.run_id)) => r1.stimulus_label # r2.stimulus_label
  /\ \A r \in response :
       Cardinality(RowsOfRun(response, r.run_id)) <= Len(FilterVersion(r.version))
\* ---------------- C16 ----------------
\* the rows an exchange added
Added(before, after) == {r \in after : \A x \in before : x.id # r.id}

\* C16 (as claimed): the trial_index stored in a row is the cursor value idx
\* at which its stimulus was taken, whatever trial_index the form carries
C16_TrialIndexIsCursor ==
  [][AcceptedPost' =>
       \A r \in Added(response, response') : r.trial_index = Cursor(last'.in)]_vars

\* C16 (amended): the trial_index stored in a row is the integer the form's
\* trial_index field converts to when the form has one that int() accepts,
\* whatever the cursor is; when the field is absent or is not an integer it
\* is the cursor value idx at which the row's stimulus was taken
C16_TrialIndexIsFormValueOrCursor ==
  [][AcceptedPost' =>
       \E r \in response' :
         /\ Added(response, response') = {r}
         /\ r.stimulus_label = last'.in.stimuli_order[Cursor(last'.in) + 1].stimulus_label
         /\ last'.req.args = ValidForm => r.trial_index = Cursor(last'.in)
         /\ last'.req.args = Put(ValidForm, "trial_index", <<"x">>)
              => r.trial_index = Cursor(last'.in)
         /\ last'.req.args = Put(ValidForm, "trial_index", <<"7">>)
              => r.trial_index = 7]_vars

\* a form carrying trial_index 7 was accepted at cursor 1 and its row stored
C16_Witness ==
  /\ AcceptedPost /\ Cursor(last.in) = 1
  /\ Get(last.req.args, "trial_index", <<>>) = <<"7">>
  /\ \E r \in RowsOfRun(response, RunId(last.in)) :
       r.trial_index = 7 /\ r.id + 1 = NextId(response)
====
